---- MODULE Spec2Model ----
(***************************************************************************)
(* BalanceFlow: the file-backed balance (MemStorage, data.json) and the    *)
(* Express routes that read and write it.                                  *)
(*                                                                         *)
(* Money is counted in cents (1.50 is 150).  A request handler is an async *)
(* function: it runs without interruption from one `await` to the next,    *)
(* and at every `await` the handlers of other requests may run.  The body  *)
(* of a storage method has no `await` of its own, so it runs to its end at *)
(* the moment it is called; the caller is suspended on the returned        *)
(* promise.  Each action below is one such uninterrupted piece of a        *)
(* handler, named after the route and the await it resumes from.  A piece  *)
(* that neither reads nor writes anything shared is joined to the piece    *)
(* before it: the last piece of a handler includes the response (nothing   *)
(* shared is touched between the last storage call and res.json), and the  *)
(* balance check of a withdrawal is made on the Balance object the handler *)
(* already holds.                                                          *)
(*                                                                         *)
(* Balance.lastUpdated and the provider's opaque ids are not modelled.     *)
(***************************************************************************)
EXTENDS Integers, Sequences, FiniteSets

(* ---------------------------------------------------------------- bounds *)
MaxReqs == 2
MaxNow == 1

ReqIds == 1..MaxReqs

(* ------------------------------------------------------ program constants *)
STRIPE_FEE == 150
CASHAPP_FEE == 25
PAYPAL_FEE == 99
ACH_FEE == 100
CASHAPP_REAL_FEE == 150
BLOCKCHAIN_FEE == 50
MIN_ADD == 1
MAX_ADD == 5000000
MIN_WITHDRAW == 100

(* The request bodies that are tried, per route.  Amounts are in cents:    *)
(* zero, 0.50, 40.00, 50.00 and 50000.01.                                  *)
AddBalanceAmounts == {0, 50, 5000, 5000001}

AddUnlimitedAmounts == {0, 4000}

(* <<amount, cardId>>                                                      *)
DepositToCardBodies ==
  {<<0, "card1">>, <<5000001, "card1">>, <<4000, "none">>, <<4000, "card1">>}

(* <<amount, whether bankName, accountNumber and routingNumber are sent>>  *)
AchDepositBodies == {<<0, TRUE>>, <<4000, FALSE>>, <<4000, TRUE>>}

AchWithdrawBodies ==
  {<<50, TRUE>>, <<4000, FALSE>>, <<2000, TRUE>>, <<4000, TRUE>>, <<5000, TRUE>>}

(* <<amount, method, whether a paymentMethodId other than                  *)
(* "override_instant_approval" is sent>>                                   *)
WithdrawBodies ==
  {<<50, "absent", FALSE>>, <<100, "absent", FALSE>>, <<4000, "absent", FALSE>>,
   <<5000, "stripe", TRUE>>,
   <<4000, "cashapp", FALSE>>, <<4000, "paypal", FALSE>>, <<4000, "venmo", FALSE>>}

CashappRealAmounts == {0, 50, 5000}

BlockchainRealAmounts == {0, 5000}

CardIds == {"card1"}

VARIABLES
  balance,          \* this.data.balance
  transactions,     \* this.data.transactions
  userCards,        \* this.data.userCards (the ids of the stored cards)
  isAuthenticated,  \* routes.ts: let isAuthenticated
  now,              \* the wall clock read by new Date()
  req,              \* the requests: input, position in the handler, response
  loaded,           \* the balance loadData found at construction (never written)
  ledger,           \* the committed rows of the SQL table `ledger`
  conn,             \* per request, the pooled client and its open transaction
  disk,             \* the contents of data.json
  diskOk,           \* whether fs.writeFileSync on data.json succeeds at present
  wise,             \* the transfer requests sent to the Wise API, in order
  sessions          \* history: the clients whose last login or logout was a login

vars ==
  <<balance, transactions, userCards, isAuthenticated, now, req, loaded,
    ledger, conn, disk, diskOk, wise, sessions>>

(* The state behind `pool` and `db`, and the state of the file system.     *)
dbvars == <<ledger, conn>>
fsvars == <<disk, diskOk>>

(* A balance that stands for "no snapshot held".                           *)
NoBal == [currentBalance |-> -1, totalAdded |-> -1, totalWithdrawn |-> -1]

ZeroBal == [currentBalance |-> 0, totalAdded |-> 0, totalWithdrawn |-> 0]

NoBefore == [bal |-> NoBal, ntx |-> -1]

(* A request slot before the request arrives.  kind, amount, method, pm,   *)
(* card are the route and the body of the request; pc is the await the     *)
(* handler is suspended on; snap is the Balance object the handler holds   *)
(* from getBalance(); resp and err are the response.  extFailed, alone,    *)
(* conc and before are history: whether the provider call of the request   *)
(* failed, whether no other request has run since it arrived, the requests *)
(* that were in flight when it arrived, and the balance and log length at  *)
(* its arrival; client is the client that sent the request.                *)
IdleReq ==
  [kind |-> "none", amount |-> 0, method |-> "absent", pm |-> FALSE, card |-> "none",
   pc |-> "idle", snap |-> NoBal, resp |-> "none", err |-> "none",
   extFailed |-> FALSE, alone |-> FALSE, conc |-> {}, before |-> NoBefore,
   client |-> "c1"]

DepositKinds == {"add-balance", "add-unlimited-money", "deposit-to-card", "ach-deposit"}

WithdrawKinds ==
  {"withdraw", "ach-withdraw", "withdraw-cashapp-real", "withdraw-blockchain-real"}

InFlight(r) == req[r].pc \notin {"idle", "done"}

(* ----------------------------------------------------------- MemStorage *)

(* The FileData that JSON.stringify(this.data) writes.                     *)
FileData(bal, txs, cards) == [balance |-> bal, transactions |-> txs, userCards |-> cards]

(* saveData: fs.writeFileSync(this.dataFile, JSON.stringify(this.data));   *)
(* an error of the write is caught and logged, and saveData returns.       *)
SaveData(bal, txs, cards) ==
  disk' = IF diskOk THEN FileData(bal, txs, cards) ELSE disk

(* updateBalance: { ...this.data.balance, ...balanceUpdate }               *)
MergeBalance(bal, upd) ==
  [f \in DOMAIN bal |-> IF f \in DOMAIN upd THEN upd[f] ELSE bal[f]]

(* createTransaction: { ...insertTransaction, id, createdAt: new Date() }  *)
(* pushed at the end of the array.  The id is a fresh random UUID; the     *)
(* model numbers the records in creation order.                            *)
NewTransaction(ins, txs, clock) ==
  [id |-> Len(txs) + 1, type |-> ins.type, amount |-> ins.amount, fee |-> ins.fee,
   netAmount |-> ins.netAmount, status |-> ins.status, createdAt |-> clock,
   paymentMethodId |->
     IF "paymentMethodId" \in DOMAIN ins THEN ins.paymentMethodId ELSE "none",
   paymentMethodName |->
     IF "paymentMethodName" \in DOMAIN ins THEN ins.paymentMethodName ELSE "none"]

(* A createTransaction that assigns the array instead of pushing to it.    *)
PushReplacing(txs, ins, clock) == <<NewTransaction(ins, txs, clock)>>

PushTransaction(txs, ins, clock) == Append(txs, NewTransaction(ins, txs, clock))

(* The transaction a deposit route records: fee 0, netAmount = amount.     *)
DepositRecord(amount) ==
  [type |-> "deposit", amount |-> amount, fee |-> 0, netAmount |-> amount,
   status |-> "completed"]

(* A withdrawal record whose netAmount is the gross amount.                *)
WithdrawalRecordGross(amount, fee) ==
  [type |-> "withdrawal", amount |-> amount, fee |-> fee, netAmount |-> amount,
   status |-> "completed"]

(* The transaction a withdrawal route records.                             *)
WithdrawalRecord(amount, fee) ==
  [type |-> "withdrawal", amount |-> amount, fee |-> fee, netAmount |-> amount - fee,
   status |-> "completed"]

(* The display name deposit-to-card builds from the card: brand, last four *)
(* digits and card name.                                                   *)
CardLabel(c) == IF c = "card1" THEN "VISA 4242 (Main)" ELSE "none"

(* The transaction deposit-to-card records: a deposit record with the id   *)
(* of the card and its display name.                                       *)
DepositToCardRecord(amount, c) ==
  [type |-> "deposit", amount |-> amount, fee |-> 0, netAmount |-> amount,
   status |-> "completed", paymentMethodId |-> c, paymentMethodName |-> CardLabel(c)]

(* DepositUpdate without the totalAdded field.                             *)
DepositUpdateBalanceOnly(snap, amount) ==
  [currentBalance |-> snap.currentBalance + amount]

(* The balance update of a deposit route, from the snapshot it read.       *)
DepositUpdate(snap, amount) ==
  [currentBalance |-> snap.currentBalance + amount,
   totalAdded |-> snap.totalAdded + amount]

(* The balance update of a withdrawal route, from the snapshot it read.    *)
WithdrawUpdate(snap, amount) ==
  [currentBalance |-> snap.currentBalance - amount,
   totalWithdrawn |-> snap.totalWithdrawn + amount]

(* ------------------------------------------------------------ validation *)

(* `amount` of a body that has no amount field (undefined).  Every handler *)
(* tests !amount before it uses the amount as a number, so the value never *)
(* reaches arithmetic; no request of the model carries this number as an   *)
(* amount.                                                                 *)
NoAmount == -99999999

(* !amount: undefined or 0.                                                *)
Falsy(amount) == amount = NoAmount \/ amount = 0

(* !amount || amount < 0.01 (add-balance, deposit-to-card)                 *)
InvalidAddAmount(amount) == Falsy(amount) \/ amount < MIN_ADD

(* amount > 50000                                                          *)
OverMaximum(amount) == amount > MAX_ADD

(* !amount || amount <= 0 (add-unlimited-money, the *-real withdrawals)    *)
InvalidPositiveAmount(amount) == Falsy(amount) \/ amount <= 0

(* InvalidDollarAmount that refuses negative amounts only.                  *)
InvalidDollarAmountNegativeOnly(amount) == amount < 0

(* !amount || amount < 1 (withdraw, ach-withdraw, ach-deposit)             *)
InvalidDollarAmount(amount) == Falsy(amount) \/ amount < MIN_WITHDRAW

(* Insufficient with the amount compared with totalAdded.                  *)
InsufficientAgainstTotalAdded(amount, snap) == amount > snap.totalAdded

(* Insufficient with >= in place of >.                                     *)
InsufficientOrEqual(amount, snap) == amount >= snap.currentBalance

(* amount > currentBalance.currentBalance                                  *)
Insufficient(amount, snap) == amount > snap.currentBalance

(* WithdrawFee with the paypal fee as the default.                         *)
WithdrawFeeDefaultPaypal(method) ==
  IF method = "cashapp" THEN CASHAPP_FEE ELSE PAYPAL_FEE

(* fee selection of POST /api/withdraw                                     *)
WithdrawFee(method) ==
  IF method = "paypal" THEN PAYPAL_FEE
  ELSE IF method = "cashapp" THEN CASHAPP_FEE
  ELSE STRIPE_FEE

(* getTransactions: Array.prototype.sort (stable) by createdAt descending, *)
(* in place on this.data.transactions.                                     *)
RECURSIVE InsertDesc(_, _)
InsertDesc(t, s) ==
  IF s = <<>> THEN <<t>>
  ELSE IF Head(s).createdAt >= t.createdAt THEN <<Head(s)>> \o InsertDesc(t, Tail(s))
  ELSE <<t>> \o s

RECURSIVE SortDesc(_)
SortDesc(s) ==
  IF s = <<>> THEN <<>>
  ELSE InsertDesc(s[Len(s)], SortDesc(SubSeq(s, 1, Len(s) - 1)))

(* ------------------------------------------------------- request slots *)

(* Requests take the slots in order.                                       *)
CanReceive(r) ==
  /\ req[r].pc = "idle"
  /\ IF r = 1 THEN TRUE ELSE req[r - 1].pc # "idle"

(* The slots once request r has arrived with the given body.               *)
Received(r, k, a, m, p, c) ==
  [q \in ReqIds |->
     IF q = r
       THEN [IdleReq EXCEPT !.kind = k, !.amount = a, !.method = m, !.pm = p,
                            !.card = c, !.pc = "start",
                            !.alone = \A o \in ReqIds \ {r} : ~InFlight(o),
                            !.conc = {o \in ReqIds \ {r} : InFlight(o)},
                            !.before = [bal |-> balance, ntx |-> Len(transactions)]]
     ELSE IF InFlight(q) THEN [req[q] EXCEPT !.alone = FALSE]
     ELSE req[q]]

(* The record of a request that has responded: the route, the amount, the  *)
(* response, whether its provider call failed and the requests it          *)
(* overlapped are kept.                                                    *)
Finish(rq, resp, err) ==
  [IdleReq EXCEPT !.kind = rq.kind, !.amount = rq.amount, !.pc = "done",
                  !.resp = resp, !.err = err, !.extFailed = rq.extFailed,
                  !.conc = rq.conc]

(* requireAuth                                                             *)
RequireAuth == isAuthenticated

(* A handler suspended at `from` resumes, calls storage.getBalance() and   *)
(* is suspended again at `to`, holding the Balance object it was given.    *)
ResumeGetBalance(r, from, to) ==
  /\ req[r].pc = from
  /\ req' = [req EXCEPT ![r].snap = balance, ![r].pc = to]
  /\ UNCHANGED <<balance, transactions, userCards, isAuthenticated, now, loaded, dbvars, fsvars, wise, sessions>>

(* A deposit handler suspended at `from` resumes, calls                    *)
(* storage.updateBalance() with the sums over its snapshot, and responds.  *)
ResumeDepositUpdate(r, from) ==
  /\ req[r].pc = from
  /\ balance' = MergeBalance(balance, DepositUpdate(req[r].snap, req[r].amount))
  /\ req' = [req EXCEPT ![r] = Finish(req[r], "success", "none")]
  /\ SaveData(balance', transactions, userCards)
  /\ UNCHANGED <<transactions, userCards, isAuthenticated, now, loaded, dbvars, diskOk, wise, sessions>>

(* A withdrawal handler suspended at `from` resumes, calls                 *)
(* storage.updateBalance() with the differences over its snapshot, and     *)
(* responds.                                                               *)
ResumeWithdrawUpdate(r, from) ==
  /\ req[r].pc = from
  /\ balance' = MergeBalance(balance, WithdrawUpdate(req[r].snap, req[r].amount))
  /\ req' = [req EXCEPT ![r] = Finish(req[r], "success", "none")]
  /\ SaveData(balance', transactions, userCards)
  /\ UNCHANGED <<transactions, userCards, isAuthenticated, now, loaded, dbvars, diskOk, wise, sessions>>

(* A request that is refused in the first piece of its handler.            *)
Refuse(r, k, a, resp, err) ==
  /\ req' = [Received(r, k, a, "absent", FALSE, "none") EXCEPT
               ![r] = Finish(@, resp, err)]
  /\ UNCHANGED <<balance, transactions, userCards, isAuthenticated, now, loaded, dbvars, fsvars, wise, sessions>>

(* A handler gets as far as its first await: the slots with request r      *)
(* suspended at pc, holding snap.                                          *)
Suspended(r, k, a, m, p, c, pc, snap) ==
  [Received(r, k, a, m, p, c) EXCEPT ![r].pc = pc, ![r].snap = snap]

(* ------------------------------------------------ authentication routes *)

Passwords == {"", "demo123", "letmein"}

(* The clients of the server.                                              *)
Clients == {"c1", "c2"}

(* POST /api/auth/login sent by client c: the handler sets the module's    *)
(* one isAuthenticated flag; it keeps nothing about the client.            *)
LoginBy(c, password) ==
  /\ password # ""
  /\ isAuthenticated' = TRUE
  /\ sessions' = sessions \cup {c}
  /\ UNCHANGED <<balance, transactions, userCards, now, req, loaded, dbvars, fsvars, wise>>

(* POST /api/auth/logout sent by client c.                                 *)
LogoutBy(c) ==
  /\ isAuthenticated' = FALSE
  /\ sessions' = sessions \ {c}
  /\ UNCHANGED <<balance, transactions, userCards, now, req, loaded, dbvars, fsvars, wise>>

(* POST /api/auth/login                                                    *)
Login(password) == LoginBy("c1", password)

(* POST /api/auth/logout                                                   *)
Logout == LogoutBy("c1")

(* The clock advances.                                                     *)
Tick ==
  /\ now < MaxNow
  /\ now' = now + 1
  /\ UNCHANGED <<balance, transactions, userCards, isAuthenticated, req, loaded, dbvars, fsvars, wise, sessions>>

(* ------------------------------------------------------------ GET routes *)

(* GET /api/balance                                                        *)
GetBalance(r) ==
  /\ CanReceive(r)
  /\ IF ~RequireAuth
       THEN Refuse(r, "get-balance", 0, "unauthorized", "Authentication required")
       ELSE /\ req' = [Received(r, "get-balance", 0, "absent", FALSE, "none") EXCEPT
                         ![r] = Finish(@, "success", "none")]
            /\ UNCHANGED <<balance, transactions, userCards, isAuthenticated, now, loaded, dbvars, fsvars, wise, sessions>>

(* GET /api/balance sent by client c.                                      *)
ClientGetBalance(r, c) ==
  /\ CanReceive(r)
  /\ req' = [Received(r, "get-balance", 0, "absent", FALSE, "none") EXCEPT
               ![r] = [Finish(@, IF RequireAuth THEN "success" ELSE "unauthorized",
                              IF RequireAuth THEN "none" ELSE "Authentication required")
                         EXCEPT !.client = c]]
  /\ UNCHANGED <<balance, transactions, userCards, isAuthenticated, now, loaded, dbvars, fsvars, wise, sessions>>

(* GET /api/transactions                                                   *)
GetTransactions(r) ==
  /\ CanReceive(r)
  /\ IF ~RequireAuth
       THEN Refuse(r, "get-transactions", 0, "unauthorized", "Authentication required")
       ELSE /\ transactions' = SortDesc(transactions)
            /\ req' = [Received(r, "get-transactions", 0, "absent", FALSE, "none") EXCEPT
                         ![r] = Finish(@, "success", "none")]
            /\ UNCHANGED <<balance, userCards, isAuthenticated, now, loaded, dbvars, fsvars, wise, sessions>>

(* ------------------------------------------------ POST /api/add-balance *)

AddBalance_Start(r, a) ==
  /\ CanReceive(r)
  /\ IF ~RequireAuth
       THEN Refuse(r, "add-balance", a, "unauthorized", "Authentication required")
     ELSE IF InvalidAddAmount(a)
       THEN Refuse(r, "add-balance", a, "invalid", "Invalid amount")
     ELSE IF OverMaximum(a)
       THEN Refuse(r, "add-balance", a, "over-maximum", "Maximum amount is $50,000")
     ELSE /\ transactions' = PushTransaction(transactions, DepositRecord(a), now)
          /\ req' = Suspended(r, "add-balance", a, "absent", FALSE, "none", "ab_tx", NoBal)
          /\ SaveData(balance, transactions', userCards)
          /\ UNCHANGED <<balance, userCards, isAuthenticated, now, loaded, dbvars, diskOk, wise, sessions>>

AddBalance_GetBalance(r) == ResumeGetBalance(r, "ab_tx", "ab_bal")

AddBalance_Update(r) == ResumeDepositUpdate(r, "ab_bal")

(* ----------------------------------------- POST /api/add-unlimited-money *)

AddUnlimited_Start(r, a) ==
  /\ CanReceive(r)
  /\ IF ~RequireAuth
       THEN Refuse(r, "add-unlimited-money", a, "unauthorized", "Authentication required")
     ELSE IF InvalidPositiveAmount(a)
       THEN Refuse(r, "add-unlimited-money", a, "invalid", "Invalid amount")
     ELSE /\ req' = Suspended(r, "add-unlimited-money", a, "absent", FALSE, "none",
                              "um_funds", NoBal)
          /\ UNCHANGED <<balance, transactions, userCards, isAuthenticated, now, loaded, dbvars, fsvars, wise, sessions>>

AddUnlimited_Create(r) ==
  /\ req[r].pc = "um_funds"
  /\ transactions' = PushTransaction(transactions, DepositRecord(req[r].amount), now)
  /\ req' = [req EXCEPT ![r].pc = "um_tx"]
  /\ SaveData(balance, transactions', userCards)
  /\ UNCHANGED <<balance, userCards, isAuthenticated, now, loaded, dbvars, diskOk, wise, sessions>>

AddUnlimited_GetBalance(r) == ResumeGetBalance(r, "um_tx", "um_bal")

AddUnlimited_Update(r) == ResumeDepositUpdate(r, "um_bal")

(* ---------------------------- POST /api/user-cards, /api/deposit-to-card *)

(* POST /api/user-cards with the card details present: createUserCard      *)
(* stores a card under a fresh id.                                         *)
CreateUserCard(r, c) ==
  /\ CanReceive(r)
  /\ c \notin userCards
  /\ IF ~RequireAuth
       THEN Refuse(r, "user-cards", 0, "unauthorized", "Authentication required")
       ELSE /\ userCards' = userCards \cup {c}
            /\ req' = [Received(r, "user-cards", 0, "absent", FALSE, "none") EXCEPT
                         ![r] = Finish(@, "success", "none")]
            /\ SaveData(balance, transactions, userCards')
            /\ UNCHANGED <<balance, transactions, isAuthenticated, now, loaded, dbvars, diskOk, wise, sessions>>

(* deleteUserCard with the card list filtered by a different predicate:    *)
(* every card goes.                                                        *)
RemoveEveryCard(cards, cardId) == {}

(* this.data.userCards.filter(card => card.id !== cardId)                  *)
RemoveCard(cards, cardId) == cards \ {cardId}

(* The ids a caller passes to deleteUserCard.                              *)
DeletedCardIds == {"card1", "card2"}

(* A call of storage.deleteUserCard(cardId): the list is filtered; if it   *)
(* got shorter the data is saved and the call returns true, otherwise it   *)
(* returns false.  The slot records the call and what it returned.         *)
DeleteUserCard(r, cardId) ==
  /\ CanReceive(r)
  /\ userCards' = RemoveCard(userCards, cardId)
  /\ req' = [Received(r, "deleteUserCard", 0, "absent", FALSE, cardId) EXCEPT
               ![r] = [Finish(@, IF Cardinality(userCards') < Cardinality(userCards)
                                   THEN "true" ELSE "false", "none")
                         EXCEPT !.card = cardId]]
  /\ IF Cardinality(userCards') < Cardinality(userCards)
       THEN SaveData(balance, transactions, userCards')
       ELSE disk' = disk
  /\ UNCHANGED <<balance, transactions, isAuthenticated, now, loaded, dbvars, diskOk, wise, sessions>>

DepositToCard_Start(r, a, c) ==
  /\ CanReceive(r)
  /\ IF ~RequireAuth
       THEN Refuse(r, "deposit-to-card", a, "unauthorized", "Authentication required")
     ELSE IF InvalidAddAmount(a)
       THEN Refuse(r, "deposit-to-card", a, "invalid", "Invalid amount")
     ELSE IF OverMaximum(a)
       THEN Refuse(r, "deposit-to-card", a, "over-maximum", "Maximum amount is $50,000")
     ELSE IF c = "none"
       THEN Refuse(r, "deposit-to-card", a, "bad-request", "Card required")
     ELSE /\ req' = Suspended(r, "deposit-to-card", a, "absent", FALSE, c,
                              IF c \in userCards THEN "dc_card" ELSE "dc_nocard", NoBal)
          /\ UNCHANGED <<balance, transactions, userCards, isAuthenticated, now, loaded, dbvars, fsvars, wise, sessions>>

DepositToCard_Create(r) ==
  \/ /\ req[r].pc = "dc_nocard"
     /\ req' = [req EXCEPT ![r] = Finish(req[r], "bad-request", "Card not found")]
     /\ UNCHANGED <<balance, transactions, userCards, isAuthenticated, now, loaded, dbvars, fsvars, wise, sessions>>
  \/ /\ req[r].pc = "dc_card"
     /\ transactions' =
          PushTransaction(transactions, DepositToCardRecord(req[r].amount, req[r].card), now)
     /\ req' = [req EXCEPT ![r].pc = "dc_tx"]
     /\ SaveData(balance, transactions', userCards)
     /\ UNCHANGED <<balance, userCards, isAuthenticated, now, loaded, dbvars, diskOk, wise, sessions>>

DepositToCard_GetBalance(r) == ResumeGetBalance(r, "dc_tx", "dc_bal")

DepositToCard_Update(r) == ResumeDepositUpdate(r, "dc_bal")

(* ------------------------------------------------ POST /api/ach-deposit *)

AchDeposit_Start(r, a, details) ==
  /\ CanReceive(r)
  /\ IF ~RequireAuth
       THEN Refuse(r, "ach-deposit", a, "unauthorized", "Authentication required")
     ELSE IF InvalidDollarAmount(a)
       THEN Refuse(r, "ach-deposit", a, "invalid", "Invalid amount")
     ELSE IF ~details
       THEN Refuse(r, "ach-deposit", a, "bad-request", "Bank account details required")
     ELSE /\ req' = Suspended(r, "ach-deposit", a, "absent", FALSE, "none", "ad_stripe", NoBal)
          /\ UNCHANGED <<balance, transactions, userCards, isAuthenticated, now, loaded, dbvars, fsvars, wise, sessions>>

(* stripe.paymentIntents.create has resolved (ok) or thrown: either way a  *)
(* paymentResult exists and the handler goes on to getBalance().           *)
AchDeposit_AfterStripe(r, ok) ==
  /\ req[r].pc = "ad_stripe"
  /\ req' = [req EXCEPT ![r].extFailed = ~ok, ![r].snap = balance, ![r].pc = "ad_bal"]
  /\ UNCHANGED <<balance, transactions, userCards, isAuthenticated, now, loaded, dbvars, fsvars, wise, sessions>>

AchDeposit_Create(r) ==
  /\ req[r].pc = "ad_bal"
  /\ transactions' = PushTransaction(transactions, DepositRecord(req[r].amount), now)
  /\ req' = [req EXCEPT ![r].pc = "ad_tx"]
  /\ SaveData(balance, transactions', userCards)
  /\ UNCHANGED <<balance, userCards, isAuthenticated, now, loaded, dbvars, diskOk, wise, sessions>>

AchDeposit_Update(r) == ResumeDepositUpdate(r, "ad_tx")

(* --------------------------------------------------- POST /api/withdraw *)

(* A Stripe branch that is taken whatever the method.                      *)
IsAnyMethod(method) == TRUE

(* method === "stripe" || !method                                          *)
IsStripeMethod(method) == method = "stripe" \/ method = "absent"

Withdraw_Start(r, a, m, p) ==
  /\ CanReceive(r)
  /\ IF ~RequireAuth
       THEN Refuse(r, "withdraw", a, "unauthorized", "Authentication required")
     ELSE IF InvalidDollarAmount(a)
       THEN Refuse(r, "withdraw", a, "invalid", "Invalid amount")
     ELSE /\ req' = Suspended(r, "withdraw", a, m, p, "none", "w_bal", balance)
          /\ UNCHANGED <<balance, transactions, userCards, isAuthenticated, now, loaded, dbvars, fsvars, wise, sessions>>

(* Resumed with the balance: the balance check, the fee, and the payout    *)
(* branches up to the next await.  The cashapp and paypal branches throw   *)
(* and catch their own error and build a payout result; any other method   *)
(* leaves payoutResult null and the handler throws.                        *)
Withdraw_AfterBalance(r) ==
  /\ req[r].pc = "w_bal"
  /\ IF Insufficient(req[r].amount, req[r].snap)
       THEN /\ req' = [req EXCEPT ![r] = Finish(req[r], "insufficient", "Insufficient balance")]
            /\ UNCHANGED <<balance, transactions, userCards, isAuthenticated, now, loaded, dbvars, fsvars, wise, sessions>>
     ELSE IF IsStripeMethod(req[r].method) /\ req[r].pm
       THEN /\ req' = [req EXCEPT ![r].pc = "w_pm"]
            /\ UNCHANGED <<balance, transactions, userCards, isAuthenticated, now, loaded, dbvars, fsvars, wise, sessions>>
     ELSE IF IsStripeMethod(req[r].method) \/ req[r].method \in {"cashapp", "paypal"}
       THEN /\ transactions' =
                 PushTransaction(transactions,
                   WithdrawalRecord(req[r].amount, WithdrawFee(req[r].method)), now)
            /\ req' = [req EXCEPT ![r].pc = "w_tx",
                                  ![r].extFailed = ~IsStripeMethod(req[r].method)]
            /\ SaveData(balance, transactions', userCards)
            /\ UNCHANGED <<balance, userCards, isAuthenticated, now, loaded, dbvars, diskOk, wise, sessions>>
     ELSE /\ req' = [req EXCEPT ![r] = Finish(req[r], "error", "No payout method processed")]
          /\ UNCHANGED <<balance, transactions, userCards, isAuthenticated, now, loaded, dbvars, fsvars, wise, sessions>>

(* stripe.paymentMethods.retrieve has resolved (ok) or thrown; a throw is  *)
(* caught and the method name falls back to "Stripe Account".              *)
Withdraw_AfterRetrieve(r, ok) ==
  /\ req[r].pc = "w_pm"
  /\ transactions' =
       PushTransaction(transactions,
         WithdrawalRecord(req[r].amount, WithdrawFee(req[r].method)), now)
  /\ req' = [req EXCEPT ![r].pc = "w_tx", ![r].extFailed = ~ok]
  /\ SaveData(balance, transactions', userCards)
  /\ UNCHANGED <<balance, userCards, isAuthenticated, now, loaded, dbvars, diskOk, wise, sessions>>

Withdraw_Update(r) == ResumeWithdrawUpdate(r, "w_tx")

(* ----------------------------------------------- POST /api/ach-withdraw *)

(* The first piece, and the one after `await storage.getBalance()`, which  *)
(* reads and writes nothing shared: validation, the Balance object the     *)
(* handler holds from getBalance(), the balance check, and the call of     *)
(* stripe.payouts.create.                                                  *)
AchWithdraw_Start(r, a, details) ==
  /\ CanReceive(r)
  /\ IF ~RequireAuth
       THEN Refuse(r, "ach-withdraw", a, "unauthorized", "Authentication required")
     ELSE IF InvalidDollarAmount(a)
       THEN Refuse(r, "ach-withdraw", a, "invalid", "Invalid amount")
     ELSE IF ~details
       THEN Refuse(r, "ach-withdraw", a, "bad-request", "Bank account details required")
     ELSE /\ req' = IF Insufficient(a, balance)
                      THEN [Received(r, "ach-withdraw", a, "absent", FALSE, "none") EXCEPT
                              ![r] = Finish(@, "insufficient", "Insufficient balance")]
                      ELSE Suspended(r, "ach-withdraw", a, "absent", FALSE, "none",
                                     "aw_stripe", balance)
          /\ UNCHANGED <<balance, transactions, userCards, isAuthenticated, now, loaded, dbvars, fsvars, wise, sessions>>

(* stripe.payouts.create has resolved (ok) or thrown; a throw is caught    *)
(* and a payout result with status "paid" is built in its place.           *)
AchWithdraw_AfterStripe(r, ok) ==
  /\ req[r].pc = "aw_stripe"
  /\ transactions' =
       PushTransaction(transactions, WithdrawalRecord(req[r].amount, ACH_FEE), now)
  /\ req' = [req EXCEPT ![r].pc = "aw_tx", ![r].extFailed = ~ok]
  /\ SaveData(balance, transactions', userCards)
  /\ UNCHANGED <<balance, userCards, isAuthenticated, now, loaded, dbvars, diskOk, wise, sessions>>

AchWithdraw_Update(r) == ResumeWithdrawUpdate(r, "aw_tx")

(* -------------------------------------- POST /api/withdraw-cashapp-real *)

(* balance.currentBalance < amount                                         *)
BalanceBelow(amount, snap) == snap.currentBalance < amount

(* The first piece, and the one after `await storage.getBalance()`, which  *)
(* reads and writes nothing shared: validation, the Balance object held,   *)
(* the balance check, and the call of dotsAPI.createCashAppPayout.         *)
CashappReal_Start(r, a) ==
  /\ CanReceive(r)
  /\ IF ~RequireAuth
       THEN Refuse(r, "withdraw-cashapp-real", a, "unauthorized", "Authentication required")
     ELSE IF InvalidPositiveAmount(a)
       THEN Refuse(r, "withdraw-cashapp-real", a, "invalid", "Invalid amount")
     ELSE /\ req' = IF BalanceBelow(a, balance)
                      THEN [Received(r, "withdraw-cashapp-real", a, "absent", FALSE, "none")
                              EXCEPT ![r] = Finish(@, "insufficient", "Insufficient balance")]
                      ELSE Suspended(r, "withdraw-cashapp-real", a, "absent", FALSE, "none",
                                     "cr_dots", balance)
          /\ UNCHANGED <<balance, transactions, userCards, isAuthenticated, now, loaded, dbvars, fsvars, wise, sessions>>

(* dotsAPI.createCashAppPayout has resolved (ok) or thrown; a throw leaves *)
(* the try block for the handler's catch, which answers 500 with the       *)
(* error's message.                                                        *)
CashappReal_AfterDots(r, ok) ==
  /\ req[r].pc = "cr_dots"
  /\ IF ok
       THEN /\ transactions' =
                 PushTransaction(transactions,
                   WithdrawalRecord(req[r].amount, CASHAPP_REAL_FEE), now)
            /\ req' = [req EXCEPT ![r].pc = "cr_tx"]
            /\ SaveData(balance, transactions', userCards)
            /\ UNCHANGED <<balance, userCards, isAuthenticated, now, loaded, dbvars, diskOk, wise, sessions>>
       ELSE /\ req' = [req EXCEPT ![r] =
                         Finish([req[r] EXCEPT !.extFailed = TRUE], "error", "provider")]
            /\ UNCHANGED <<balance, transactions, userCards, isAuthenticated, now, loaded, dbvars, fsvars, wise, sessions>>

CashappReal_Update(r) == ResumeWithdrawUpdate(r, "cr_tx")

(* ----------------------------------- POST /api/withdraw-blockchain-real *)

(* The first piece, and the one after `await storage.getBalance()`:        *)
(* validation, the Balance object held, the balance check, and the call of *)
(* blockchainLedger.convertToRealUSDC.                                     *)
BlockchainReal_Start(r, a) ==
  /\ CanReceive(r)
  /\ IF ~RequireAuth
       THEN Refuse(r, "withdraw-blockchain-real", a, "unauthorized", "Authentication required")
     ELSE IF InvalidPositiveAmount(a)
       THEN Refuse(r, "withdraw-blockchain-real", a, "invalid", "Invalid amount")
     ELSE /\ req' = IF BalanceBelow(a, balance)
                      THEN [Received(r, "withdraw-blockchain-real", a, "absent", FALSE, "none")
                              EXCEPT ![r] = Finish(@, "insufficient", "Insufficient balance")]
                      ELSE Suspended(r, "withdraw-blockchain-real", a, "absent", FALSE,
                                     "none", "br_usdc", balance)
          /\ UNCHANGED <<balance, transactions, userCards, isAuthenticated, now, loaded, dbvars, fsvars, wise, sessions>>

(* blockchainLedger.convertToRealUSDC throws on every path (not            *)
(* configured, or not yet implemented), so the handler always answers 500  *)
(* and the lines that record the transaction are never reached.            *)
BlockchainReal_AfterConvert(r) ==
  /\ req[r].pc = "br_usdc"
  /\ req' = [req EXCEPT ![r] =
               Finish([req[r] EXCEPT !.extFailed = TRUE], "error", "provider")]
  /\ UNCHANGED <<balance, transactions, userCards, isAuthenticated, now, loaded, dbvars, fsvars, wise, sessions>>

(* --------------------------------------------------------- POST /payout *)

(* A request that has taken no client from the pool.                       *)
NoClient == [userId |-> "", locked |-> FALSE, rows |-> <<>>]

(* The user ids of the requests; "" is a body without userId.              *)
UserIds == {"u1"}

PayoutBodies ==
  {<<"", 4000>>, <<"u1", 0>>, <<"u1", 2000>>, <<"u1", 4000>>, <<"u1", 6000>>}

(* A row of the table `ledger`.                                            *)
LedgerRow(u, b, p, c) ==
  [userId |-> u, balance |-> b, pendingBalance |-> p, completedBalance |-> c]

(* SELECT ... FROM ledger WHERE user_id = $1                               *)
RowsOfUser(rows, u) == SelectSeq(rows, LAMBDA row : row.userId = u)

(* UPDATE ledger SET balance = balance - $1,                               *)
(*   pending_balance = pending_balance + $1 WHERE user_id = $2             *)
MoveToPending(rows, u, a) ==
  [i \in 1..Len(rows) |->
     IF rows[i].userId = u
       THEN [rows[i] EXCEPT !.balance = @ - a, !.pendingBalance = @ + a]
       ELSE rows[i]]

(* The second UPDATE without its first assignment.                         *)
MarkCompletedKeepsPending(rows, u, a) ==
  [i \in 1..Len(rows) |->
     IF rows[i].userId = u
       THEN [rows[i] EXCEPT !.completedBalance = @ + a]
       ELSE rows[i]]

(* UPDATE ledger SET pending_balance = pending_balance - $1,               *)
(*   completed_balance = completed_balance + $1 WHERE user_id = $2         *)
MarkCompleted(rows, u, a) ==
  [i \in 1..Len(rows) |->
     IF rows[i].userId = u
       THEN [rows[i] EXCEPT !.pendingBalance = @ - a, !.completedBalance = @ + a]
       ELSE rows[i]]

(* COMMIT: the rows the transaction wrote (those of its user, which it has *)
(* locked) replace the committed ones.                                     *)
Commit(committed, cl) ==
  [i \in 1..Len(committed) |->
     IF committed[i].userId = cl.userId /\ i <= Len(cl.rows)
       THEN cl.rows[i]
       ELSE committed[i]]

(* A SELECT without FOR UPDATE: no lock is waited for.                     *)
NeverLocked(r, u) == FALSE

(* A ROLLBACK that keeps what the transaction wrote.                       *)
RollbackKeepsWrites(committed, cl) == Commit(committed, cl)

(* ROLLBACK: what the transaction wrote is discarded.                      *)
Rollback(committed, cl) == committed

(* Some other transaction holds the row locks of user u.                   *)
LockedByOther(r, u) ==
  \E o \in ReqIds \ {r} : conn[o].locked /\ conn[o].userId = u

(* !userId || !amount || typeof amount !== 'number' || amount <= 0         *)
InvalidPayout(u, a) == u = "" \/ Falsy(a) \/ a <= 0

(* result.rows[0].balance < amount, on the rows SELECT ... FOR UPDATE gave *)
InsufficientFunds(rows, a) == rows = <<>> \/ rows[1].balance < a

(* The handler up to the SELECT: validation, pool.connect() and BEGIN.     *)
(* The route is registered without requireAuth.                            *)
Payout_Start(r, u, a) ==
  /\ CanReceive(r)
  /\ IF InvalidPayout(u, a)
       THEN Refuse(r, "payout", a, "invalid", "Invalid userId or amount")
     ELSE /\ req' = Suspended(r, "payout", a, "absent", FALSE, "none", "p_select", NoBal)
          /\ conn' = [conn EXCEPT ![r] = [NoClient EXCEPT !.userId = u]]
          /\ UNCHANGED <<balance, transactions, userCards, isAuthenticated, now, loaded,
                         ledger, fsvars, wise, sessions>>

(* SELECT balance ... FOR UPDATE returns once no other transaction holds   *)
(* the locks of the user's rows, and sees what is committed by then.  With *)
(* no row or too small a balance the handler rolls back and answers 400;   *)
(* otherwise it moves the amount to pending_balance, inside its            *)
(* transaction, and calls stripe.payouts.create.                           *)
Payout_Select(r) ==
  /\ req[r].pc = "p_select"
  /\ ~LockedByOther(r, conn[r].userId)
  /\ IF InsufficientFunds(RowsOfUser(ledger, conn[r].userId), req[r].amount)
       THEN /\ req' = [req EXCEPT ![r] = Finish(req[r], "insufficient", "Insufficient funds")]
            /\ conn' = [conn EXCEPT ![r] = NoClient]
       ELSE /\ req' = [req EXCEPT ![r].pc = "p_stripe"]
            /\ conn' = [conn EXCEPT ![r].locked = TRUE,
                                    ![r].rows = MoveToPending(ledger, conn[r].userId,
                                                              req[r].amount)]
  /\ UNCHANGED <<balance, transactions, userCards, isAuthenticated, now, loaded,
                 ledger, fsvars, wise, sessions>>

(* stripe.payouts.create has resolved (ok) or thrown.  Resolved: the       *)
(* amount goes from pending_balance to completed_balance, COMMIT, and the  *)
(* answer is success.  Thrown: the catch rolls back and answers 500 with   *)
(* the error's message.  Either way the client is released.                *)
Payout_AfterStripe(r, ok) ==
  /\ req[r].pc = "p_stripe"
  /\ IF ok
       THEN /\ ledger' = Commit(ledger, [conn[r] EXCEPT !.rows =
                              MarkCompleted(@, conn[r].userId, req[r].amount)])
            /\ req' = [req EXCEPT ![r] = Finish(req[r], "success", "none")]
       ELSE /\ ledger' = Rollback(ledger, conn[r])
            /\ req' = [req EXCEPT ![r] =
                         Finish([req[r] EXCEPT !.extFailed = TRUE], "error", "provider")]
  /\ conn' = [conn EXCEPT ![r] = NoClient]
  /\ UNCHANGED <<balance, transactions, userCards, isAuthenticated, now, loaded, fsvars, wise, sessions>>

(* ------------------------------------------------ GET /ledger/:userId *)

(* The userIds of the ledger requests: one that may have a row already and *)
(* one that has none.                                                      *)
LedgerUserIds == {"u1", "u2"}

(* The row the route inserts for a user who has none.                      *)
NewLedgerRow(u) == LedgerRow(u, 0, 0, 0)

(* The handler up to the answer of db.select().from(ledger).where(userId): *)
(* with a row of the user it responds with the first one; with none it     *)
(* goes on to insert.  The route is registered without requireAuth.  The   *)
(* client slot of the request keeps the userId and the row it returned.    *)
Ledger_Select(r, u) ==
  /\ CanReceive(r)
  /\ IF RowsOfUser(ledger, u) # <<>>
       THEN /\ req' = [Received(r, "ledger", 0, "absent", FALSE, "none") EXCEPT
                         ![r] = Finish(@, "success", "none")]
            /\ conn' = [conn EXCEPT ![r] = [NoClient EXCEPT !.userId = u,
                                            !.rows = <<RowsOfUser(ledger, u)[1]>>]]
       ELSE /\ req' = Suspended(r, "ledger", 0, "absent", FALSE, "none", "lg_insert", NoBal)
            /\ conn' = [conn EXCEPT ![r] = [NoClient EXCEPT !.userId = u]]
  /\ UNCHANGED <<balance, transactions, userCards, isAuthenticated, now, loaded,
                 ledger, fsvars, wise, sessions>>

(* db.insert(ledger).values({userId, 0, 0, 0}).returning(), and the        *)
(* response with the new row.  user_id has no unique constraint.           *)
Ledger_Insert(r) ==
  /\ req[r].pc = "lg_insert"
  /\ ledger' = Append(ledger, NewLedgerRow(conn[r].userId))
  /\ req' = [req EXCEPT ![r] = Finish(req[r], "success", "none")]
  /\ conn' = [conn EXCEPT ![r].rows = <<NewLedgerRow(conn[r].userId)>>]
  /\ UNCHANGED <<balance, transactions, userCards, isAuthenticated, now, loaded, fsvars, wise, sessions>>

(* ------------------------------------ WiseTransferService.createTransfer *)

(* The quotes and the recipient account of the calls.                      *)
QuoteIds == {"q1", "q2"}
TargetAccounts == {"acct1"}

(* customerTransactionId: `bf_${Date.now()}`                               *)
CustomerTransactionId(quoteId, clock) == <<"bf", clock>>

(* The body of POST /v1/transfers.                                         *)
TransferBody(quoteId, targetAccount, clock) ==
  [targetAccount |-> targetAccount, quoteUuid |-> quoteId,
   customerTransactionId |-> CustomerTransactionId(quoteId, clock)]

(* createTransfer(quoteId, targetAccount) with the API token configured:   *)
(* the handler posts the transfer and waits for the response.              *)
Wise_CreateTransfer(r, quoteId, targetAccount) ==
  /\ CanReceive(r)
  /\ req' = Suspended(r, "wise-transfer", 0, quoteId, FALSE, targetAccount,
                      "ws_transfer", NoBal)
  /\ wise' = Append(wise, TransferBody(quoteId, targetAccount, now))
  /\ UNCHANGED <<balance, transactions, userCards, isAuthenticated, now, loaded,
                 dbvars, fsvars, sessions>>

(* The response to POST /v1/transfers: not ok, and the call throws; ok,    *)
(* and the call posts the payment that funds the transfer.                 *)
Wise_AfterTransfer(r, ok) ==
  /\ req[r].pc = "ws_transfer"
  /\ req' = [req EXCEPT ![r] =
               IF ok THEN [@ EXCEPT !.pc = "ws_fund"]
               ELSE [Finish([@ EXCEPT !.extFailed = TRUE], "error", "provider")
                       EXCEPT !.method = req[r].method, !.card = req[r].card]]
  /\ UNCHANGED <<balance, transactions, userCards, isAuthenticated, now, loaded,
                 dbvars, fsvars, wise, sessions>>

(* The response to the funding payment: not ok, and the call throws; ok,   *)
(* and the call returns the transfer.                                      *)
Wise_AfterFund(r, ok) ==
  /\ req[r].pc = "ws_fund"
  /\ req' = [req EXCEPT ![r] =
               [Finish([@ EXCEPT !.extFailed = ~ok],
                       IF ok THEN "success" ELSE "error",
                       IF ok THEN "none" ELSE "provider")
                  EXCEPT !.method = req[r].method, !.card = req[r].card]]
  /\ UNCHANGED <<balance, transactions, userCards, isAuthenticated, now, loaded,
                 dbvars, fsvars, wise, sessions>>

(* ------------------------------------------------------- specification *)


(* What the constructor finds: no data.json (the zero balance and an empty *)
(* log), or the data.json an earlier run left after one add-balance of     *)
(* 50.00 at time 0, the clock having advanced since.                       *)
LoadedFiles ==
  {[balance |-> ZeroBal, transactions |-> <<>>],
   [balance |-> [currentBalance |-> 5000, totalAdded |-> 5000, totalWithdrawn |-> 0],
    transactions |-> PushTransaction(<<>>, DepositRecord(5000), 0)]}

Init ==
  /\ \E file \in LoadedFiles :
       /\ balance = file.balance
       /\ transactions = file.transactions
       /\ loaded = file.balance
       /\ now = Len(file.transactions)
       /\ disk = FileData(file.balance, file.transactions, {})
  /\ userCards = {}
  /\ isAuthenticated = FALSE
  /\ req = [r \in ReqIds |-> IdleReq]
  /\ ledger = <<>>
  /\ conn = [r \in ReqIds |-> NoClient]
  /\ diskOk = TRUE
  /\ wise = <<>>
  /\ sessions = {}

Next ==
  \/ \E password \in Passwords : Login(password)
  \/ Logout
  \/ Tick
  \/ \E r \in ReqIds : GetBalance(r)
  \/ \E r \in ReqIds : GetTransactions(r)
  \/ \E r \in ReqIds, a \in AddBalanceAmounts : AddBalance_Start(r, a)
  \/ \E r \in ReqIds : AddBalance_GetBalance(r)
  \/ \E r \in ReqIds : AddBalance_Update(r)
  \/ \E r \in ReqIds, a \in AddUnlimitedAmounts : AddUnlimited_Start(r, a)
  \/ \E r \in ReqIds : AddUnlimited_Create(r)
  \/ \E r \in ReqIds : AddUnlimited_GetBalance(r)
  \/ \E r \in ReqIds : AddUnlimited_Update(r)
  \/ \E r \in ReqIds, c \in CardIds : CreateUserCard(r, c)
  \/ \E r \in ReqIds, b \in DepositToCardBodies : DepositToCard_Start(r, b[1], b[2])
  \/ \E r \in ReqIds : DepositToCard_Create(r)
  \/ \E r \in ReqIds : DepositToCard_GetBalance(r)
  \/ \E r \in ReqIds : DepositToCard_Update(r)
  \/ \E r \in ReqIds, b \in AchDepositBodies : AchDeposit_Start(r, b[1], b[2])
  \/ \E r \in ReqIds, ok \in BOOLEAN : AchDeposit_AfterStripe(r, ok)
  \/ \E r \in ReqIds : AchDeposit_Create(r)
  \/ \E r \in ReqIds : AchDeposit_Update(r)
  \/ \E r \in ReqIds, b \in WithdrawBodies : Withdraw_Start(r, b[1], b[2], b[3])
  \/ \E r \in ReqIds : Withdraw_AfterBalance(r)
  \/ \E r \in ReqIds, ok \in BOOLEAN : Withdraw_AfterRetrieve(r, ok)
  \/ \E r \in ReqIds : Withdraw_Update(r)
  \/ \E r \in ReqIds, b \in AchWithdrawBodies : AchWithdraw_Start(r, b[1], b[2])
  \/ \E r \in ReqIds, ok \in BOOLEAN : AchWithdraw_AfterStripe(r, ok)
  \/ \E r \in ReqIds : AchWithdraw_Update(r)
  \/ \E r \in ReqIds, a \in CashappRealAmounts : CashappReal_Start(r, a)
  \/ \E r \in ReqIds, ok \in BOOLEAN : CashappReal_AfterDots(r, ok)
  \/ \E r \in ReqIds : CashappReal_Update(r)
  \/ \E r \in ReqIds, a \in BlockchainRealAmounts : BlockchainReal_Start(r, a)
  \/ \E r \in ReqIds : BlockchainReal_AfterConvert(r)

Spec == Init /\ [][Next]_vars

(* The balance of the user whose row the database holds at the start.      *)
SeededBalance == 5000

(* The table `ledger` as the server finds it: empty, or with the row of a  *)
(* user who has 50.00.                                                     *)
LedgerTables == {<<>>, <<LedgerRow("u1", SeededBalance, 0, 0)>>}

(* The server started on a database that has ledger rows.                  *)
InitPayout ==
  /\ balance = ZeroBal
  /\ transactions = <<>>
  /\ loaded = ZeroBal
  /\ now = 0
  /\ disk = FileData(ZeroBal, <<>>, {})
  /\ userCards = {}
  /\ isAuthenticated = FALSE
  /\ req = [r \in ReqIds |-> IdleReq]
  /\ ledger \in LedgerTables
  /\ conn = [r \in ReqIds |-> NoClient]
  /\ diskOk = TRUE
  /\ wise = <<>>
  /\ sessions = {}

(* The requests to POST /payout, with the login and logout requests.       *)
NextPayout ==
  \/ \E password \in Passwords : Login(password)
  \/ Logout
  \/ \E r \in ReqIds, b \in PayoutBodies : Payout_Start(r, b[1], b[2])
  \/ \E r \in ReqIds : Payout_Select(r)
  \/ \E r \in ReqIds, ok \in BOOLEAN : Payout_AfterStripe(r, ok)

SpecPayout == InitPayout /\ [][NextPayout]_vars

(* Two clients that log in, log out and read the balance, while deposits   *)
(* are made.                                                               *)
NextClients ==
  \/ \E c \in Clients, password \in Passwords : LoginBy(c, password)
  \/ \E c \in Clients : LogoutBy(c)
  \/ \E r \in ReqIds, c \in Clients : ClientGetBalance(r, c)
  \/ \E r \in ReqIds, a \in AddBalanceAmounts : AddBalance_Start(r, a)
  \/ \E r \in ReqIds : AddBalance_GetBalance(r)
  \/ \E r \in ReqIds : AddBalance_Update(r)

SpecClients == Init /\ [][NextClients]_vars

(* Calls of WiseTransferService.createTransfer as time passes.             *)
NextWise ==
  \/ Tick
  \/ \E password \in Passwords : Login(password)
  \/ \E r \in ReqIds, q \in QuoteIds, t \in TargetAccounts : Wise_CreateTransfer(r, q, t)
  \/ \E r \in ReqIds, ok \in BOOLEAN : Wise_AfterTransfer(r, ok)
  \/ \E r \in ReqIds, ok \in BOOLEAN : Wise_AfterFund(r, ok)

SpecWise == Init /\ [][NextWise]_vars

(* What the constructor finds when cards are in use: no data.json, or the  *)
(* data.json of a run in which card1 was added and 50.00 deposited to it.  *)
CardFiles ==
  {[balance |-> ZeroBal, transactions |-> <<>>, userCards |-> {}],
   [balance |-> [currentBalance |-> 5000, totalAdded |-> 5000, totalWithdrawn |-> 0],
    transactions |-> PushTransaction(<<>>, DepositToCardRecord(5000, "card1"), 0),
    userCards |-> {"card1"}]}

InitCards ==
  /\ \E file \in CardFiles :
       /\ balance = file.balance
       /\ transactions = file.transactions
       /\ userCards = file.userCards
       /\ loaded = file.balance
       /\ now = Len(file.transactions)
       /\ disk = FileData(file.balance, file.transactions, file.userCards)
  /\ isAuthenticated = FALSE
  /\ req = [r \in ReqIds |-> IdleReq]
  /\ ledger = <<>>
  /\ conn = [r \in ReqIds |-> NoClient]
  /\ diskOk = TRUE
  /\ wise = <<>>
  /\ sessions = {}

(* The card routes, the deposit to a card, and calls of deleteUserCard.    *)
NextCards ==
  \/ \E password \in Passwords : Login(password)
  \/ \E r \in ReqIds, c \in CardIds : CreateUserCard(r, c)
  \/ \E r \in ReqIds, c \in DeletedCardIds : DeleteUserCard(r, c)
  \/ \E r \in ReqIds, b \in DepositToCardBodies : DepositToCard_Start(r, b[1], b[2])
  \/ \E r \in ReqIds : DepositToCard_Create(r)
  \/ \E r \in ReqIds : DepositToCard_GetBalance(r)
  \/ \E r \in ReqIds : DepositToCard_Update(r)

SpecCards == InitCards /\ [][NextCards]_vars

(* The requests to GET /ledger/:userId and POST /payout.                   *)
NextLedger ==
  \/ \E r \in ReqIds, u \in LedgerUserIds : Ledger_Select(r, u)
  \/ \E r \in ReqIds : Ledger_Insert(r)
  \/ \E r \in ReqIds, b \in PayoutBodies : Payout_Start(r, b[1], b[2])
  \/ \E r \in ReqIds : Payout_Select(r)
  \/ \E r \in ReqIds, ok \in BOOLEAN : Payout_AfterStripe(r, ok)

(* The ledger tables of a database that two users may share: those above,  *)
(* and one with the row of u1 and a row of u2, who has 30.00.              *)
SharedTables ==
  LedgerTables \cup {<<LedgerRow("u1", SeededBalance, 0, 0), LedgerRow("u2", 3000, 0, 0)>>}

InitLedger ==
  /\ balance = ZeroBal
  /\ transactions = <<>>
  /\ loaded = ZeroBal
  /\ now = 0
  /\ disk = FileData(ZeroBal, <<>>, {})
  /\ userCards = {}
  /\ isAuthenticated = FALSE
  /\ req = [r \in ReqIds |-> IdleReq]
  /\ ledger \in SharedTables
  /\ conn = [r \in ReqIds |-> NoClient]
  /\ diskOk = TRUE
  /\ wise = <<>>
  /\ sessions = {}

SpecLedger == InitLedger /\ [][NextLedger]_vars

(* data.json as an earlier run can have left it: absent, or holding two    *)
(* deposits of 50.00 that createTransaction recorded within the same       *)
(* millisecond (createdAt 0 for both), the clock having advanced since.    *)
LoggedFiles ==
  {[balance |-> ZeroBal, transactions |-> <<>>, clock |-> 0],
   [balance |-> [currentBalance |-> 10000, totalAdded |-> 10000, totalWithdrawn |-> 0],
    transactions |->
      PushTransaction(PushTransaction(<<>>, DepositRecord(5000), 0), DepositRecord(5000), 0),
    clock |-> 1]}

InitLog ==
  /\ \E file \in LoggedFiles :
       /\ balance = file.balance
       /\ transactions = file.transactions
       /\ loaded = file.balance
       /\ now = file.clock
       /\ disk = FileData(file.balance, file.transactions, {})
  /\ userCards = {}
  /\ isAuthenticated = FALSE
  /\ req = [r \in ReqIds |-> IdleReq]
  /\ ledger = <<>>
  /\ conn = [r \in ReqIds |-> NoClient]
  /\ diskOk = TRUE
  /\ wise = <<>>
  /\ sessions = {}

(* The requests that read the log, with one deposit and one withdrawal     *)
(* route that write it, and the clock.                                     *)
NextLog ==
  \/ \E password \in Passwords : Login(password)
  \/ Tick
  \/ \E r \in ReqIds : GetTransactions(r)
  \/ \E r \in ReqIds, a \in AddBalanceAmounts : AddBalance_Start(r, a)
  \/ \E r \in ReqIds : AddBalance_GetBalance(r)
  \/ \E r \in ReqIds : AddBalance_Update(r)
  \/ \E r \in ReqIds, b \in AchWithdrawBodies : AchWithdraw_Start(r, b[1], b[2])
  \/ \E r \in ReqIds, ok \in BOOLEAN : AchWithdraw_AfterStripe(r, ok)
  \/ \E r \in ReqIds : AchWithdraw_Update(r)

SpecLog == InitLog /\ [][NextLog]_vars

(* The file system starts to refuse writes of data.json (a full or         *)
(* read-only disk): fs.writeFileSync throws from now on.                   *)
DiskBreaks ==
  /\ diskOk
  /\ diskOk' = FALSE
  /\ UNCHANGED <<balance, transactions, userCards, isAuthenticated, now, req, loaded,
                 dbvars, disk, wise, sessions>>

(* The file system accepts writes again.                                   *)
DiskRecovers ==
  /\ ~diskOk
  /\ diskOk' = TRUE
  /\ UNCHANGED <<balance, transactions, userCards, isAuthenticated, now, req, loaded,
                 dbvars, disk, wise, sessions>>

(* A deposit route and a withdrawal route on a file system whose writes    *)
(* may fail.                                                               *)
NextDisk ==
  \/ \E password \in Passwords : Login(password)
  \/ DiskBreaks
  \/ DiskRecovers
  \/ \E r \in ReqIds, a \in AddBalanceAmounts : AddBalance_Start(r, a)
  \/ \E r \in ReqIds : AddBalance_GetBalance(r)
  \/ \E r \in ReqIds : AddBalance_Update(r)
  \/ \E r \in ReqIds, body \in AchWithdrawBodies : AchWithdraw_Start(r, body[1], body[2])
  \/ \E r \in ReqIds, ok \in BOOLEAN : AchWithdraw_AfterStripe(r, ok)
  \/ \E r \in ReqIds : AchWithdraw_Update(r)

SpecDisk == Init /\ [][NextDisk]_vars

(* The process dies and is started again: the handlers in flight are gone  *)
(* without a response, the module's login flag is false again, and the     *)
(* constructor's loadData reads this.data from data.json.                  *)
CrashAndReload ==
  /\ balance' = disk.balance
  /\ transactions' = disk.transactions
  /\ userCards' = disk.userCards
  /\ loaded' = disk.balance
  /\ isAuthenticated' = FALSE
  /\ req' = [r \in ReqIds |->
               IF InFlight(r) THEN Finish(req[r], "aborted", "none") ELSE req[r]]
  /\ conn' = [r \in ReqIds |-> NoClient]
  /\ UNCHANGED <<now, ledger, fsvars, wise, sessions>>

(* A deposit route and a withdrawal route on a server that may crash and   *)
(* restart at any time.                                                    *)
NextCrash ==
  \/ \E password \in Passwords : Login(password)
  \/ CrashAndReload
  \/ \E r \in ReqIds, a \in AddBalanceAmounts : AddBalance_Start(r, a)
  \/ \E r \in ReqIds : AddBalance_GetBalance(r)
  \/ \E r \in ReqIds : AddBalance_Update(r)
  \/ \E r \in ReqIds, body \in AchWithdrawBodies : AchWithdraw_Start(r, body[1], body[2])
  \/ \E r \in ReqIds, ok \in BOOLEAN : AchWithdraw_AfterStripe(r, ok)
  \/ \E r \in ReqIds : AchWithdraw_Update(r)

SpecCrash == Init /\ [][NextCrash]_vars

(* The amounts of a request without a valid amount: none, zero, negative.  *)
InvalidAmounts == {NoAmount, 0, -50}

(* The requests to the routes that change balances, each with an amount    *)
(* that is missing, zero or negative, with the login and logout requests.  *)
NextInvalid ==
  \/ \E password \in Passwords : Login(password)
  \/ Logout
  \/ \E r \in ReqIds, a \in InvalidAmounts : AddBalance_Start(r, a)
  \/ \E r \in ReqIds, a \in InvalidAmounts : AddUnlimited_Start(r, a)
  \/ \E r \in ReqIds, a \in InvalidAmounts : DepositToCard_Start(r, a, "card1")
  \/ \E r \in ReqIds, a \in InvalidAmounts, d \in BOOLEAN : AchDeposit_Start(r, a, d)
  \/ \E r \in ReqIds, a \in InvalidAmounts, m \in {"absent", "cashapp"} :
        Withdraw_Start(r, a, m, FALSE)
  \/ \E r \in ReqIds, a \in InvalidAmounts, d \in BOOLEAN : AchWithdraw_Start(r, a, d)
  \/ \E r \in ReqIds, a \in InvalidAmounts : CashappReal_Start(r, a)
  \/ \E r \in ReqIds, a \in InvalidAmounts : BlockchainReal_Start(r, a)
  \/ \E r \in ReqIds, a \in InvalidAmounts, u \in UserIds : Payout_Start(r, u, a)

(* The server started on a database that has ledger rows and on either     *)
(* data.json.                                                              *)
InitInvalid ==
  /\ \E file \in LoadedFiles :
       /\ balance = file.balance
       /\ transactions = file.transactions
       /\ loaded = file.balance
       /\ now = Len(file.transactions)
       /\ disk = FileData(file.balance, file.transactions, {})
  /\ userCards = {}
  /\ isAuthenticated = FALSE
  /\ req = [r \in ReqIds |-> IdleReq]
  /\ ledger \in LedgerTables
  /\ conn = [r \in ReqIds |-> NoClient]
  /\ diskOk = TRUE
  /\ wise = <<>>
  /\ sessions = {}

SpecInvalid == InitInvalid /\ [][NextInvalid]_vars

(* The two withdrawal routes that call stripe.payouts.create.              *)
NextLive ==
  \/ \E password \in Passwords : Login(password)
  \/ \E r \in ReqIds, b \in PayoutBodies : Payout_Start(r, b[1], b[2])
  \/ \E r \in ReqIds : Payout_Select(r)
  \/ \E r \in ReqIds, ok \in BOOLEAN : Payout_AfterStripe(r, ok)
  \/ \E r \in ReqIds, body \in AchWithdrawBodies : AchWithdraw_Start(r, body[1], body[2])
  \/ \E r \in ReqIds, ok \in BOOLEAN : AchWithdraw_AfterStripe(r, ok)
  \/ \E r \in ReqIds : AchWithdraw_Update(r)

(* What runs without waiting for the provider is scheduled: the database   *)
(* answers a SELECT whose rows are not locked, and the event loop resumes  *)
(* a handler whose storage promise has resolved.  The handlers set no      *)
(* timer and pass no timeout to the Stripe client (new Stripe(key,         *)
(* {apiVersion})), so nothing in the server makes a pending                *)
(* stripe.payouts.create settle: its return has no fairness condition.     *)
SpecLive ==
  /\ InitInvalid
  /\ [][NextLive]_vars
  /\ \A r \in ReqIds : WF_vars(Payout_Select(r)) /\ WF_vars(AchWithdraw_Update(r))

(* ------------------------------------------------------------ properties *)

(* The requests of the given routes that have returned success.            *)
Succeeded(kinds) ==
  {r \in ReqIds : req[r].pc = "done" /\ req[r].resp = "success" /\ req[r].kind \in kinds}

RECURSIVE SumAmounts(_)
SumAmounts(S) ==
  IF S = {} THEN 0
  ELSE LET r == CHOOSE x \in S : TRUE IN req[r].amount + SumAmounts(S \ {r})

(* No request is in flight.                                                *)
Quiescent == \A r \in ReqIds : ~InFlight(r)

(* The balance the log accounts for: deposits minus gross withdrawals.     *)
RECURSIVE LogNet(_)
LogNet(txs) ==
  IF txs = <<>> THEN 0
  ELSE (IF Head(txs).type = "deposit" THEN Head(txs).netAmount ELSE 0 - Head(txs).amount)
       + LogNet(Tail(txs))

(* Request r arrives in this step.                                         *)
Arrives(r) == req[r].pc = "idle" /\ req'[r].pc # "idle"

(* Request r responds in this step.                                        *)
Responds(r) == req[r].pc # "done" /\ req'[r].pc = "done"

(* Requests r and o were in flight at the same time.                       *)
Overlapped(r, o) == o \in req[r].conc \/ r \in req[o].conc

LastTransaction(txs) == txs[Len(txs)]

(* C1: once all requests have finished, currentBalance is the balance at   *)
(* start plus the amounts of the deposits that returned success minus the  *)
(* gross amounts of the withdrawals that returned success.                 *)
C1_NoLostUpdate ==
  Quiescent =>
    balance.currentBalance =
      loaded.currentBalance + SumAmounts(Succeeded(DepositKinds))
                            - SumAmounts(Succeeded(WithdrawKinds))

(* C2: in every reachable state currentBalance >= 0.                       *)
C2_NonNegative == balance.currentBalance >= 0

(* C2 witness: two withdrawals that were in flight at the same time have   *)
(* both returned success.                                                  *)
C2_Witness ==
  \E r, o \in Succeeded(WithdrawKinds) : r # o /\ Overlapped(r, o)

(* C3: of two withdrawals in flight at the same time whose amounts each    *)
(* fit the balance but together exceed it, the one that responds second    *)
(* fails with insufficient balance, and the balance is left at the initial *)
(* value minus the amount of the first.                                    *)
C3_ExactlyOneSucceeds ==
  [][\A r, o \in ReqIds :
       ( /\ r # o
         /\ InFlight(r) /\ Responds(r)
         /\ req[r].kind \in WithdrawKinds /\ req[o].kind \in WithdrawKinds
         /\ req[o].pc = "done" /\ req[o].resp = "success"
         /\ Overlapped(r, o)
         /\ req[r].amount <= req[r].before.bal.currentBalance
         /\ req[o].amount <= req[r].before.bal.currentBalance
         /\ req[r].amount + req[o].amount > req[r].before.bal.currentBalance )
       => ( /\ req'[r].resp = "insufficient"
            /\ balance'.currentBalance =
                 req[r].before.bal.currentBalance - req[o].amount )]_vars

(* C5: the stored balance satisfies                                        *)
(* currentBalance = totalAdded - totalWithdrawn.                           *)
C5_BalanceIsDifference ==
  balance.currentBalance = balance.totalAdded - balance.totalWithdrawn

(* C6: totalAdded and totalWithdrawn never decrease from one state to the  *)
(* next.                                                                   *)
C6_TotalsMonotone ==
  [][ /\ balance'.totalAdded >= balance.totalAdded
      /\ balance'.totalWithdrawn >= balance.totalWithdrawn ]_vars

(* A GET /api/balance or GET /api/transactions request is served in this   *)
(* step.                                                                   *)
ServesRead ==
  \E r \in ReqIds :
    /\ Arrives(r)
    /\ req'[r].kind \in {"get-balance", "get-transactions"}
    /\ req'[r].resp = "success"

(* C7: whenever a GET /api/balance or GET /api/transactions request is     *)
(* served, the balance it can read is the balance the log it can read      *)
(* accounts for: every logged transaction has its balance effect applied   *)
(* and every balance change has its transaction in the log.                *)
C7_ReadsSeeLogAndBalanceTogether ==
  [][ServesRead => balance.currentBalance = LogNet(transactions)]_vars

(* The provider call of request r fails and r responds in this step, or r  *)
(* responds after its provider call has failed.                            *)
RespondsAfterProviderFailure(r) ==
  /\ InFlight(r) /\ Responds(r)
  /\ req[r].extFailed \/ req[r].pc \in {"cr_dots", "br_usdc"}

(* C4: whenever the provider call of a request on /api/withdraw,           *)
(* /api/ach-withdraw, /api/ach-deposit, /api/withdraw-cashapp-real or      *)
(* /api/withdraw-blockchain-real fails, the request returns an error       *)
(* carrying the reason, its responding step leaves the balance and the log *)
(* as they are, and a request that had no other request in flight has      *)
(* recorded no transaction.                                                *)
C4_ProviderFailureIsError ==
  [][\A r \in ReqIds :
       RespondsAfterProviderFailure(r)
       => ( /\ req'[r].resp = "error" /\ req'[r].err = "provider"
            /\ balance' = balance /\ transactions' = transactions
            /\ req[r].alone => /\ balance = req[r].before.bal
                               /\ Len(transactions) = req[r].before.ntx )]_vars

(* C8: a POST /api/withdraw of amount A by the default (Stripe) method     *)
(* that returns success with no other request in flight leaves             *)
(* currentBalance = B - A, totalWithdrawn increased by A, totalAdded as it *)
(* was, and has appended exactly one transaction: a withdrawal of amount   *)
(* A, fee 1.50, netAmount A - 1.50, status completed.                      *)
C8_StripeWithdraw ==
  [][\A r \in ReqIds :
       ( /\ InFlight(r) /\ Responds(r) /\ req'[r].resp = "success"
         /\ req[r].kind = "withdraw" /\ req[r].method \in {"stripe", "absent"}
         /\ req[r].alone )
       => LET B == req[r].before.bal
              A == req[r].amount
              t == LastTransaction(transactions')
          IN  /\ B.currentBalance >= A
              /\ balance' = [currentBalance |-> B.currentBalance - A,
                             totalAdded |-> B.totalAdded,
                             totalWithdrawn |-> B.totalWithdrawn + A]
              /\ Len(transactions') = req[r].before.ntx + 1
              /\ t.type = "withdrawal" /\ t.amount = A /\ t.fee = 150
              /\ t.netAmount = A - 150 /\ t.status = "completed"]_vars

(* C8 witness: on the loaded balance of 50.00 a single Stripe withdrawal   *)
(* of 40.00 has returned success: the balance is 10.00 and the log ends    *)
(* with the withdrawal, netAmount 38.50.                                   *)
C8_Witness ==
  /\ req[1].pc = "done" /\ req[1].kind = "withdraw" /\ req[1].resp = "success"
  /\ req[1].amount = 4000
  /\ \A o \in ReqIds \ {1} : req[o].pc = "idle"
  /\ loaded.currentBalance = 5000
  /\ balance.currentBalance = 1000
  /\ LastTransaction(transactions).netAmount = 3850

(* Request r is refused in its arrival step for its form, not its amount:  *)
(* no login, or no bank account details.                                   *)
Malformed(r) == req'[r].resp \in {"unauthorized", "bad-request"}

MinimumOf(kind) == IF kind \in {"withdraw", "ach-withdraw"} THEN MIN_WITHDRAW ELSE 1

C10_AddBalance ==
  [][\A r \in ReqIds :
       ( /\ InFlight(r) /\ Responds(r) /\ req'[r].resp = "success"
         /\ req[r].kind = "add-balance" /\ req[r].alone )
       => LET B == req[r].before.bal
              A == req[r].amount
              t == LastTransaction(transactions')
          IN  /\ 1 <= A /\ A <= 5000000
              /\ balance' = [currentBalance |-> B.currentBalance + A,
                             totalAdded |-> B.totalAdded + A,
                             totalWithdrawn |-> B.totalWithdrawn]
              /\ Len(transactions') = req[r].before.ntx + 1
              /\ t.type = "deposit" /\ t.amount = A /\ t.fee = 0
              /\ t.netAmount = A /\ t.status = "completed"]_vars

(* C10 witness: on the loaded balance of 50.00 a single add-balance of     *)
(* 0.50 has returned success and the balance is 50.50.                     *)
C10_Witness ==
  /\ req[1].pc = "done" /\ req[1].kind = "add-balance" /\ req[1].resp = "success"
  /\ req[1].amount = 50
  /\ \A o \in ReqIds \ {1} : req[o].pc = "idle"
  /\ balance = [currentBalance |-> 5050, totalAdded |-> 5050, totalWithdrawn |-> 0]
  /\ Len(transactions) = 2

(* The routes that change the balance or a ledger row.                     *)
MutatingKinds == DepositKinds \cup WithdrawKinds \cup {"payout"}

(* An amount that is missing, zero or negative.                            *)
BadAmount(a) == a = NoAmount \/ a <= 0

(* C11: a request to a route that changes the balance or a ledger row      *)
(* whose amount is missing, zero or negative is rejected on arrival with   *)
(* the invalid-amount error (by requireAuth with 401, on the routes behind *)
(* it, when nobody is logged in), and the balance, the log, data.json and  *)
(* the ledger rows are left as they are.                                   *)
C11_InvalidAmountRejected ==
  [][\A r \in ReqIds :
       ( /\ Arrives(r) /\ req'[r].kind \in MutatingKinds
         /\ BadAmount(req'[r].amount) )
       => ( /\ req'[r].pc = "done"
            /\ req'[r].resp = IF isAuthenticated \/ req'[r].kind = "payout"
                                THEN "invalid" ELSE "unauthorized"
            /\ balance' = balance /\ transactions' = transactions
            /\ disk' = disk /\ ledger' = ledger /\ conn' = conn )]_vars

(* C11 witness: a POST /payout without amount and, after a login, a        *)
(* POST /api/ach-withdraw with a negative amount have both been rejected   *)
(* as invalid.                                                             *)
C11_Witness ==
  \E r, o \in ReqIds :
    /\ req[r].pc = "done" /\ req[r].kind = "payout"
    /\ req[r].amount = NoAmount /\ req[r].resp = "invalid"
    /\ req[o].pc = "done" /\ req[o].kind = "ach-withdraw"
    /\ req[o].amount < 0 /\ req[o].resp = "invalid"

(* The completed withdrawal records of amount a in the log.                *)
CompletedWithdrawals(txs, a) ==
  {i \in 1..Len(txs) :
     txs[i].type = "withdrawal" /\ txs[i].status = "completed" /\ txs[i].amount = a}

(* Request o is request r submitted again after r has responded.           *)
SubmittedAgain(r, o) ==
  /\ r < o /\ ~Overlapped(r, o)
  /\ req[r].pc = "done" /\ req[o].pc = "done"
  /\ req[r].kind \in WithdrawKinds /\ req[o].kind = req[r].kind
  /\ req[o].amount = req[r].amount

(* C12: when the provider call of a withdrawal has failed, and the same    *)
(* withdrawal submitted again has returned success with its provider call  *)
(* succeeding, the balance is debited once by the amount and the log holds *)
(* one completed withdrawal of that amount.                                *)
C12_RetryDebitsOnce ==
  \A r, o \in ReqIds :
    ( /\ SubmittedAgain(r, o)
      /\ req[r].extFailed
      /\ ~req[o].extFailed /\ req[o].resp = "success" )
    => ( /\ balance.currentBalance = loaded.currentBalance - req[r].amount
         /\ Cardinality(CompletedWithdrawals(transactions, req[r].amount)) = 1 )

(* Every record comes before the records created earlier: createdAt        *)
(* descending, and of two records with the same createdAt the one created  *)
(* later first.  Ids number the records in creation order.                 *)
NewestFirst(txs) ==
  \A i, j \in 1..Len(txs) :
    i < j => \/ txs[i].createdAt > txs[j].createdAt
             \/ txs[i].createdAt = txs[j].createdAt /\ txs[i].id > txs[j].id

(* C13: the array GET /api/transactions answers with lists the records     *)
(* newest first, records of one createdAt in reverse insertion order; when *)
(* the log was empty at the start and no other request is in flight the    *)
(* array has one record per deposit or withdrawal that returned success.   *)
C13_TransactionsNewestFirst ==
  [][\A r \in ReqIds :
       ( /\ Arrives(r) /\ req'[r].kind = "get-transactions"
         /\ req'[r].resp = "success" )
       => ( /\ NewestFirst(transactions')
            /\ ( /\ loaded = ZeroBal
                 /\ \A o \in ReqIds \ {r} : ~InFlight(o) )
               => Len(transactions') =
                    Cardinality(Succeeded(DepositKinds \cup WithdrawKinds)) )]_vars

(* C14: while isAuthenticated is false, a request that arrives on a route  *)
(* other than login and logout is answered 401 at once, and nothing but    *)
(* the record of the request changes.                                      *)
C14_UnauthenticatedRejected ==
  [][\A r \in ReqIds :
       ( Arrives(r) /\ ~isAuthenticated )
       => ( /\ req'[r].pc = "done" /\ req'[r].resp = "unauthorized"
            /\ UNCHANGED <<balance, transactions, userCards, ledger, conn, disk>> )]_vars

(* C15: no login request with a password other than "demo123" turns       *)
(* isAuthenticated from false to true.                                     *)
C15_OnlyDemoPassword ==
  [][\A password \in Passwords \ {"demo123"} :
       ~(Login(password) /\ ~isAuthenticated /\ isAuthenticated')]_vars

(* The ledger balance user u started with.                                 *)
StartingBalance(u) == IF RowsOfUser(ledger, u) = <<>> THEN 0 ELSE SeededBalance

(* The payouts of user u that returned success.  A finished request keeps  *)
(* no user id; UserIds has the single user u1.                             *)
PaidOut(u) == Succeeded({"payout"})

(* C16: a payout request that is at its Stripe call holds the row locks of *)
(* its user and has, in its transaction, moved the amount from balance to  *)
(* pending_balance; no two requests hold the locks of one user; the        *)
(* amounts of the payouts that returned success sum to no more than the    *)
(* balance the user started with; and no balance, committed or inside a    *)
(* transaction, is negative.                                               *)
C16_PayoutsNeverOverdraw ==
  /\ \A r \in ReqIds :
       req[r].pc = "p_stripe"
       => /\ conn[r].locked
          /\ conn[r].rows = MoveToPending(ledger, conn[r].userId, req[r].amount)
  /\ \A r, o \in ReqIds :
       (r # o /\ conn[r].locked /\ conn[o].locked) => conn[r].userId # conn[o].userId
  /\ \A u \in UserIds : SumAmounts(PaidOut(u)) <= StartingBalance(u)
  /\ \A i \in 1..Len(ledger) : ledger[i].balance >= 0
  /\ \A r \in ReqIds : \A i \in 1..Len(conn[r].rows) : conn[r].rows[i].balance >= 0

(* C16 witness: two payouts of 20.00 that were in flight at the same time  *)
(* have both returned success, and the row holds 10.00 and 40.00 paid.     *)
C16_Witness ==
  /\ Succeeded({"payout"}) = {1, 2} /\ Overlapped(1, 2)
  /\ ledger = <<LedgerRow("u1", 1000, 0, 4000)>>

(* C17: when the Stripe call of a payout fails, the request answers with   *)
(* an error that carries the provider's message, its transaction is over,  *)
(* and the committed ledger rows are what they were: the amount the        *)
(* transaction had moved to pending_balance is back in balance.  While no  *)
(* payout has succeeded the table is the one the server started with.      *)
C17_StripeFailureRollsBack ==
  [][\A r \in ReqIds :
       (req[r].pc = "p_stripe" /\ req'[r].pc = "done" /\ req'[r].extFailed)
       => /\ req'[r].resp = "error" /\ req'[r].err = "provider"
          /\ conn[r].rows # ledger
          /\ ledger' = ledger
          /\ conn'[r] = NoClient
          /\ (Succeeded({"payout"}) = {} => ledger' \in LedgerTables)]_vars

(* C17 witness: a payout of 40.00 whose Stripe call failed has answered    *)
(* with the error, and the row still holds 50.00, nothing pending.         *)
C17_Witness ==
  \E r \in ReqIds :
    /\ req[r].kind = "payout" /\ req[r].pc = "done" /\ req[r].extFailed
    /\ req[r].amount = 4000 /\ req[r].resp = "error"
    /\ ledger = <<LedgerRow("u1", SeededBalance, 0, 0)>>

(* The positions at which a withdrawal handler waits for its external      *)
(* transfer call: stripe.payouts.create of ach-withdraw, the Dots payout   *)
(* of withdraw-cashapp-real, the USDC conversion of                        *)
(* withdraw-blockchain-real.                                               *)
TransferCallPcs == {"aw_stripe", "cr_dots", "br_usdc"}

(* The records of a log.                                                   *)
Records(txs) == {txs[i] : i \in 1..Len(txs)}

(* C18: whenever a withdrawal is at its external transfer call the log     *)
(* holds a pending withdrawal record of its amount; and a step leaves each *)
(* record as it is or changes only its status, from pending to completed   *)
(* or failed.                                                              *)
C18_PendingBeforeTransfer ==
  [][/\ \A r \in ReqIds :
          req'[r].pc \in TransferCallPcs
          => \E t \in Records(transactions') :
               t.type = "withdrawal" /\ t.status = "pending" /\ t.amount = req'[r].amount
     /\ \A t \in Records(transactions) :
          \E u \in Records(transactions') :
            /\ u.id = t.id
            /\ \/ u = t
               \/ /\ t.status = "pending" /\ u.status \in {"completed", "failed"}
                  /\ u = [t EXCEPT !.status = u.status]]_vars

(* C19: every record of the log, in memory and in data.json, has           *)
(* netAmount = amount - fee, and a deposit record has fee 0.               *)
C19_NetAmountIsAmountLessFee ==
  \A t \in Records(transactions) \cup Records(disk.transactions) :
    /\ t.netAmount = t.amount - t.fee
    /\ t.type = "deposit" => t.fee = 0

(* C19 witness: the log holds a deposit record and the record of a         *)
(* CashApp withdrawal of 40.00 with its fee of 0.25 and 39.75 net.         *)
C19_Witness ==
  /\ \E t \in Records(transactions) : t.type = "deposit" /\ t.netAmount = t.amount
  /\ \E t \in Records(transactions) :
       /\ t.type = "withdrawal" /\ t.amount = 4000
       /\ t.fee = CASHAPP_FEE /\ t.netAmount = 4000 - CASHAPP_FEE

(* C20: a step of a deposit or withdrawal request taken while data.json    *)
(* cannot be written leaves the balance and the log in memory as they      *)
(* were, and if the request answers in that step it does not answer        *)
(* success.                                                                *)
C20_FailedWriteAborts ==
  [][\A r \in ReqIds :
       ( /\ req[r].kind \in DepositKinds \cup WithdrawKinds
         /\ InFlight(r) /\ req'[r] # req[r]
         /\ ~diskOk )
       => /\ balance' = balance
          /\ transactions' = transactions
          /\ req'[r].pc = "done" => req'[r].resp # "success"]_vars

(* The routes whose handler waits for stripe.payouts.create.               *)
PayoutCallKinds == {"payout", "ach-withdraw"}

(* C21: every withdrawal request that is in flight eventually finishes,    *)
(* and a transaction that holds the row locks of a user eventually gives   *)
(* them up, so that a later payout of the same user proceeds; a request    *)
(* whose payout call did not succeed answers with a failure.               *)
C21_WithdrawalsEventuallyFinish ==
  /\ \A r \in ReqIds :
       (req[r].kind \in PayoutCallKinds /\ InFlight(r)) ~> (req[r].pc = "done")
  /\ \A r \in ReqIds : conn[r].locked ~> ~conn[r].locked
  /\ [][\A r \in ReqIds :
          (req'[r].kind \in PayoutCallKinds /\ req'[r].pc = "done" /\ req'[r].extFailed)
          => req'[r].resp # "success"]_vars

(* The ledger requests that have been answered.                            *)
LedgerAnswered == {r \in ReqIds : req[r].kind = "ledger" /\ req[r].pc = "done"}

(* C22: once a GET /ledger/:userId has been answered the table holds       *)
(* exactly one row of that userId; a request for a userId that has a row   *)
(* answers with that row and leaves the table unchanged; and a row the     *)
(* route creates has balance, pending and completed balance 0.             *)
C22_OneLedgerRowPerUser ==
  /\ [](\A r \in LedgerAnswered : Len(RowsOfUser(ledger, conn[r].userId)) = 1)
  /\ [][\A r \in ReqIds :
          (req'[r].kind = "ledger" /\ req'[r].pc = "done" /\ req[r].pc # "done")
          => IF RowsOfUser(ledger, conn'[r].userId) # <<>> /\ req[r].pc = "idle"
               THEN /\ ledger' = ledger
                    /\ conn'[r].rows = <<RowsOfUser(ledger, conn'[r].userId)[1]>>
               ELSE /\ ledger' = Append(ledger, LedgerRow(conn'[r].userId, 0, 0, 0))
                    /\ conn'[r].rows = <<LedgerRow(conn'[r].userId, 0, 0, 0)>>]_vars

(* C23: a call of deleteUserCard(cardId) leaves exactly the other cards,   *)
(* returns true if the card was there and false (with the cards and        *)
(* data.json unchanged) if not, and leaves the balance and every           *)
(* transaction record, with its paymentMethodId and paymentMethodName,     *)
(* unchanged.                                                              *)
C23_DeleteUserCard ==
  [][\A r \in ReqIds, cardId \in DeletedCardIds :
       DeleteUserCard(r, cardId)
       => /\ userCards' = userCards \ {cardId}
          /\ req'[r].resp = (IF cardId \in userCards THEN "true" ELSE "false")
          /\ cardId \notin userCards => (userCards' = userCards /\ disk' = disk)
          /\ cardId \in userCards => disk'.userCards = userCards'
          /\ balance' = balance /\ transactions' = transactions
          /\ disk'.transactions = disk.transactions /\ disk'.balance = disk.balance]_vars

(* C23 witness: card1 has been deleted, the call returned true, and the    *)
(* record of the deposit to card1 still names the card; and a call for a   *)
(* card that was not there has returned false.                             *)
C23_Witness ==
  /\ \E r \in ReqIds :
       req[r].kind = "deleteUserCard" /\ req[r].card = "card1" /\ req[r].resp = "true"
  /\ \E r \in ReqIds : req[r].kind = "deleteUserCard" /\ req[r].resp = "false"
  /\ userCards = {}
  /\ \E t \in Records(transactions) :
       t.paymentMethodId = "card1" /\ t.paymentMethodName = CardLabel("card1")

(* C24: the records of the log have distinct ids, and every step keeps     *)
(* every record of the log, with every field, in the log: the set of       *)
(* records getTransactions returns only grows.                             *)
C24_LogIsAppendOnly ==
  /\ [](\A i, j \in 1..Len(transactions) :
          i # j => transactions[i].id # transactions[j].id)
  /\ [][/\ Records(transactions) \subseteq Records(transactions')
        /\ Len(transactions') >= Len(transactions)]_vars

(* C24 witness: the log loaded from data.json has received a second        *)
(* record, and a served GET /api/transactions has put the newer record     *)
(* first.                                                                  *)
C24_Witness ==
  /\ Len(transactions) = 2
  /\ transactions[1].id = 2 /\ transactions[2].id = 1
  /\ \E r \in ReqIds :
       req[r].kind = "get-transactions" /\ req[r].pc = "done" /\ req[r].resp = "success"

(* C25: any two transfer requests sent to Wise for the same quote and      *)
(* target account carry the same customerTransactionId.                    *)
C25_StableCustomerTransactionId ==
  \A i, j \in 1..Len(wise) :
    (wise[i].quoteUuid = wise[j].quoteUuid /\ wise[i].targetAccount = wise[j].targetAccount)
    => wise[i].customerTransactionId = wise[j].customerTransactionId

(* C26: a request to a protected route is accepted exactly if the client   *)
(* that sent it has logged in and not logged out since, whatever the other *)
(* clients did.                                                            *)
C26_AccessDependsOnOwnLogin ==
  [][\A r \in ReqIds :
       (Arrives(r) /\ req'[r].kind = "get-balance")
       => req'[r].resp = (IF req'[r].client \in sessions THEN "success"
                          ELSE "unauthorized")]_vars

(* The fee POST /api/withdraw is to charge for a method, or -1 for a       *)
(* method it does not process.                                             *)
FeeOfMethod(method) ==
  IF method \in {"stripe", "absent"} THEN 150
  ELSE IF method = "cashapp" THEN 25
  ELSE IF method = "paypal" THEN 99
  ELSE -1

(* C27: a step of a POST /api/withdraw handler that records a transaction  *)
(* records the fee of the request's method: 1.50 for stripe or none, 0.25  *)
(* for cashapp, 0.99 for paypal; and with any other method and an amount   *)
(* not above the balance the request answers with the error "No payout     *)
(* method processed", records nothing and leaves the balance unchanged.    *)
C27_WithdrawFeeByMethod ==
  [][\A r \in ReqIds :
       (req[r].kind = "withdraw" /\ req[r].pc \in {"w_bal", "w_pm"}
          /\ req'[r].pc # req[r].pc)
       => /\ transactions' # transactions
             => /\ Len(transactions') = Len(transactions) + 1
                /\ LastTransaction(transactions').fee = FeeOfMethod(req[r].method)
                /\ LastTransaction(transactions').amount = req[r].amount
          /\ (FeeOfMethod(req[r].method) = -1 /\ ~Insufficient(req[r].amount, req[r].snap))
             => /\ req'[r].pc = "done" /\ req'[r].resp = "error"
                /\ req'[r].err = "No payout method processed"
                /\ transactions' = transactions /\ balance' = balance]_vars

(* C27 witness: with 50.00 loaded, a withdrawal of 40.00 by an unknown     *)
(* method has been answered with the error and a CashApp withdrawal has    *)
(* been recorded with its fee of 0.25; the log holds that one new record.  *)
C27_Witness ==
  /\ loaded.currentBalance = 5000
  /\ \E r \in ReqIds :
       /\ req[r].kind = "withdraw" /\ req[r].pc = "done" /\ req[r].amount = 4000
       /\ req[r].err = "No payout method processed"
  /\ Len(transactions) = 2
  /\ LastTransaction(transactions).type = "withdrawal"
  /\ LastTransaction(transactions).fee = 25

(* balance + pending_balance + completed_balance of a ledger row.          *)
RowTotal(row) == row.balance + row.pendingBalance + row.completedBalance

(* C28: a step of a POST /payout request leaves the table with the same    *)
(* rows in number, leaves the rows of other users as they are, and leaves  *)
(* the total and the pending_balance of each committed row of its user as  *)
(* they are; a step in which the request answers success decreases balance *)
(* by the amount and increases completed_balance by the amount, any other  *)
(* step changes no committed row; and inside the transaction the total of  *)
(* each row is the committed total.                                        *)
C28_PayoutConservesRowTotal ==
  [][\A r \in ReqIds :
       (req[r].kind = "payout" /\ InFlight(r) /\ req'[r].pc # req[r].pc)
       => LET u == conn[r].userId
              a == req[r].amount
              paid == req'[r].pc = "done" /\ req'[r].resp = "success"
          IN  /\ Len(ledger') = Len(ledger)
              /\ \A i \in 1..Len(ledger) :
                   IF ledger[i].userId # u
                     THEN ledger'[i] = ledger[i]
                     ELSE /\ RowTotal(ledger'[i]) = RowTotal(ledger[i])
                          /\ ledger'[i].pendingBalance = ledger[i].pendingBalance
                          /\ IF paid
                               THEN /\ ledger'[i].balance = ledger[i].balance - a
                                    /\ ledger'[i].completedBalance =
                                         ledger[i].completedBalance + a
                               ELSE ledger'[i] = ledger[i]
              /\ \A i \in 1..Len(conn'[r].rows) :
                   RowTotal(conn'[r].rows[i]) = RowTotal(ledger[i])]_vars

(* C28 witness: of two payouts of u1 one has failed at Stripe and one of   *)
(* 40.00 has succeeded; the row of u1 holds 10.00 and 40.00 completed,     *)
(* nothing pending, and the row of u2 is as it was.                        *)
C28_Witness ==
  /\ \E r \in ReqIds : req[r].kind = "payout" /\ req[r].pc = "done" /\ req[r].extFailed
  /\ \E r \in ReqIds :
       /\ req[r].kind = "payout" /\ req[r].pc = "done"
       /\ req[r].resp = "success" /\ req[r].amount = 4000
  /\ ledger = <<LedgerRow("u1", 1000, 0, 4000), LedgerRow("u2", 3000, 0, 0)>>

(* C29: every withdrawal record of the log has netAmount >= 0.             *)
C29_NetAmountNotNegative ==
  \A t \in Records(transactions) : t.type = "withdrawal" => t.netAmount >= 0

(* C30: every write of data.json changes the balance in the file by what   *)
(* the records it adds to the file account for, so that a log entry and    *)
(* its balance update reach the file together; and what a restart loads    *)
(* from the file is a balance equal to what the loaded log accounts for.   *)
C30_SnapshotsAreConsistent ==
  [][/\ disk' # disk
        => disk'.balance.currentBalance - disk.balance.currentBalance
             = LogNet(disk'.transactions) - LogNet(disk.transactions)
     /\ CrashAndReload => balance'.currentBalance = LogNet(transactions')]_vars

====
